---- MODULE Spec2Model ----
(***************************************************************************)
(* A model of skyant.scrapper: Field (_field.py), Loader (_loader.py),     *)
(* SearchPage (catalog/_search.py) and ItemPage (catalog/_item.py).        *)
(*                                                                         *)
(* Python values are tagged records, so that any two of them compare:      *)
(*   None, a str (a sequence of one-character tokens), an lxml node        *)
(*   handle, a list of values.                                             *)
(* The external collaborators (the xpath engine, the selenium driver, the  *)
(* pydantic validator) are nondeterministic inputs of the actions.         *)
(***************************************************************************)
EXTENDS Integers, Sequences, FiniteSets, TLC

\* ------------------------------------------------------------------ bounds
MaxQueryLen == 2
MaxEvals == 2

\* ------------------------------------------------------------ Python values
None == [kind |-> "none"]
Str(s) == [kind |-> "str", chars |-> s]
Node(n) == [kind |-> "node", id |-> n]
List(xs) == [kind |-> "list", items |-> xs]

IsStr(v) == v.kind = "str"
IsList(v) == v.kind = "list"
IsNone(v) == v.kind = "none"

\* Python truthiness of the values above: None, '', [] and {} are falsy.
Truthy(v) ==
    CASE v.kind = "none" -> FALSE
      [] v.kind = "str" -> Len(v.chars) > 0
      [] v.kind = "list" -> Len(v.items) > 0
      [] v.kind = "dict" -> DOMAIN v.m # {}
      [] OTHER -> TRUE

Chars == {" ", "a"}

SeqsUpTo(S, n) == UNION {[1..k -> S] : k \in 0..n}

\* The text nodes and attribute values of the documents: ' ', ' a ' and
\* 'aa'.
Strings == {<<" ">>, <<" ", "a", " ">>, <<"a", "a">>}

\* str.strip(): drop the leading and the trailing whitespace.
RECURSIVE LStrip(_)
LStrip(s) == IF s # <<>> /\ Head(s) = " " THEN LStrip(Tail(s)) ELSE s

RECURSIVE RStrip(_)
RStrip(s) ==
    IF s # <<>> /\ s[Len(s)] = " " THEN RStrip(SubSeq(s, 1, Len(s) - 1)) ELSE s

Strip(s) == RStrip(LStrip(s))

\* What tree.xpath(selector) hands back: a list of nodes and strings in
\* document order, or an exception.
QueryValues == {Str(s) : s \in Strings} \cup {Node(0)}

QueryResults ==
    {[ok |-> TRUE, nodes |-> ns] : ns \in SeqsUpTo(QueryValues, MaxQueryLen)}
        \cup {[ok |-> FALSE, nodes |-> <<>>]}

\* ------------------------------------------------------------------- Field
\* A Field subclass: the class attributes array and autocorrection (absent
\* when hasAuto is FALSE) and whether parser() is the stub or an override
\* that raises.  An autocorrection table is the dict in iteration order:
\* a sequence of [key, value], value being the list of variants.
Keys == {<<"a">>, <<"b">>}

\* The variant lists: ['aa'] and ['a'].
Variants == {<<<<"a", "a">>>>, <<<<"a">>>>}

\* The dicts of no key, and of the two keys in either order.
Tables ==
    {<<>>}
        \cup {<<[key |-> ks[1], value |-> v1], [key |-> ks[2], value |-> v2]>> :
                ks \in {p \in Keys \X Keys : p[1] # p[2]},
                v1 \in Variants, v2 \in Variants}

FieldClasses ==
    {[array |-> a, hasAuto |-> FALSE, table |-> <<>>, parser |-> p] :
        a \in BOOLEAN, p \in {"stub", "raises"}}
        \cup {[array |-> a, hasAuto |-> TRUE, table |-> t, parser |-> "stub"] :
                a \in BOOLEAN, t \in Tables}
        \cup {[array |-> a, hasAuto |-> TRUE,
                table |-> <<[key |-> <<"a">>, value |-> <<>>]>>, parser |-> "raises"] :
                a \in BOOLEAN}

StripValue(v) == IF IsStr(v) THEN Str(Strip(v.chars)) ELSE v

\* Field.__init__, lines 95-112: self.content from the outcome of
\* tree.xpath(self._selector).
FieldInit(q, array) ==
    LET queried == IF q.ok THEN List(q.nodes) ELSE None
        picked ==
            IF Truthy(queried)
            THEN IF Len(queried.items) > 0
                 THEN IF array THEN queried ELSE queried.items[1]
                 ELSE IF Len(queried.items) = 0 THEN None ELSE queried
            ELSE queried
    IN  IF IsStr(picked) THEN StripValue(picked)
        ELSE IF IsList(picked)
             THEN List([i \in 1..Len(picked.items) |-> StripValue(picked.items[i])])
             ELSE picked

InList(x, xs) == \E j \in 1..Len(xs) : xs[j] = x

\* A normalizer that keeps scanning and answers with the last key that
\* matches.
RECURSIVE NormalizerLastFrom(_, _, _)
NormalizerLastFrom(origin, table, i) ==
    IF i > Len(table)
    THEN [res |-> origin, table |-> table]
    ELSE LET appended == [table EXCEPT ![i].value = Append(@, table[i].key)]
             rest == NormalizerLastFrom(origin, appended, i + 1)
         IN  IF rest.res = origin /\ InList(origin, appended[i].value)
             THEN [res |-> table[i].key, table |-> rest.table]
             ELSE rest
\* Field.normalizer, lines 152-161, from the i-th entry of the dict on: the
\* string returned and the dict as the loop leaves it.
RECURSIVE NormalizerFrom(_, _, _)
NormalizerFrom(origin, table, i) ==
    IF i > Len(table)
    THEN [res |-> origin, table |-> table]
    ELSE LET appended == [table EXCEPT ![i].value = Append(@, table[i].key)]
         IN  IF InList(origin, appended[i].value)
             THEN [res |-> table[i].key, table |-> appended]
             ELSE NormalizerFrom(origin, appended, i + 1)

normalizer(origin, table) == NormalizerFrom(origin, table, 1)

\* The list comprehension of Field.__call__, lines 174-176, from item i on.
RECURSIVE NormalizeItems(_, _, _)
NormalizeItems(items, table, i) ==
    IF i > Len(items)
    THEN [res |-> <<>>, table |-> table]
    ELSE LET one == IF IsStr(items[i])
                    THEN LET n == normalizer(items[i].chars, table)
                         IN  [res |-> Str(n.res), table |-> n.table]
                    ELSE [res |-> items[i], table |-> table]
             rest == NormalizeItems(items, one.table, i + 1)
         IN  [res |-> <<one.res>> \o rest.res, table |-> rest.table]

\* A __call__ without its try/except and without the hooks.
FieldCallUnguarded(content, cls, table) == [ret |-> content, table |-> table]
\* Field.__call__, lines 163-182: the value returned and the autocorrection
\* dict afterwards.
FieldCall(content, cls, table) ==
    IF cls.parser = "raises"
    THEN [ret |-> None, table |-> table]
    ELSE IF ~cls.hasAuto
         THEN [ret |-> content, table |-> table]
         ELSE IF IsStr(content)
              THEN LET n == normalizer(content.chars, table)
                   IN  [ret |-> Str(n.res), table |-> n.table]
              ELSE IF IsList(content)
                   THEN LET n == NormalizeItems(content.items, table, 1)
                        IN  [ret |-> List(n.res), table |-> n.table]
                   ELSE [ret |-> content, table |-> table]

\* Field(tree)() with the stub parser and no autocorrection: what SearchPage
\* and ItemPage get from their Items, Next and Child fields.
Evaluate(q, array) ==
    FieldCall(FieldInit(q, array),
              [array |-> array, hasAuto |-> FALSE, table |-> <<>>, parser |-> "stub"],
              <<>>).ret

VARIABLES fpc, fcls, autocorrection, fq, content, fret, evals

fieldVars == <<fpc, fcls, autocorrection, fq, content, fret, evals>>

FieldIdle ==
    /\ fpc = "none"
    /\ fcls = [array |-> FALSE, hasAuto |-> FALSE, table |-> <<>>, parser |-> "stub"]
    /\ autocorrection = <<>>
    /\ fq = [ok |-> TRUE, nodes |-> <<>>]
    /\ content = None
    /\ fret = None
    /\ evals = 0

FieldDefined ==
    /\ fpc = "none"
    /\ fcls \in FieldClasses
    /\ autocorrection = fcls.table
    /\ fq = [ok |-> TRUE, nodes |-> <<>>]
    /\ content = None
    /\ fret = None
    /\ evals = 0

\* Field(tree): the constructor on a document whose query ends as q.
FieldNew ==
    /\ evals < MaxEvals
    /\ fpc \in {"none", "returned"}
    /\ \E q \in QueryResults :
        /\ fq' = q
        /\ content' = FieldInit(q, fcls.array)
    /\ fpc' = "constructed"
    /\ UNCHANGED <<fcls, autocorrection, fret, evals>>

\* instance(): Field.__call__.
FieldInvoke ==
    /\ fpc = "constructed"
    /\ LET r == FieldCall(content, fcls, autocorrection)
       IN  /\ fret' = r.ret
           /\ autocorrection' = r.table
    /\ fpc' = "returned"
    /\ evals' = evals + 1
    /\ UNCHANGED <<fcls, fq, content>>

\* --------------------------------------------------------- driver sessions
\* webdriver.Chrome(...) in Loader.__init__ opens a session; only Loader.quit
\* closes one.  sessions counts the sessions open.
VARIABLES sessions

\* How Loader(url)() ends for its caller once the session is open: the
\* parsed page is returned, or driver.get / a phase raised.
LoadOutcomes == {"ready", "raises"}

\* -------------------------------------------------------------- SearchPage
MaxPages == 3
MaxPerPage == 3
MaxDepth == 3

\* The site: page p of the catalog has the URL Url(p); PageOf is what
\* driver.get resolves a URL to.
Url(p) == [i \in 1..p |-> "u"]
PageOf(chars) == Len(chars)

TeaserId(p, i) == (p - 1) * MaxPerPage + i

Found(ns) == [ok |-> TRUE, nodes |-> ns]
QueryError == [ok |-> FALSE, nodes |-> <<>>]

\* What the Items selector finds on page p: no teaser, one teaser, a full
\* page of MaxPerPage teasers, or a query error.
ItemsChoice(p, c) ==
    IF c = 3 THEN QueryError
    ELSE LET k == IF c = 2 THEN MaxPerPage ELSE c
         IN  Found([i \in 1..k |-> Node(TeaserId(p, i))])

\* What the Next selector finds on page p of L: on a page before the last
\* the link to page p + 1 (v = 1: the bare URL, else the URL within
\* whitespace); on the last page nothing, a query error or a blank string.
NextChoice(p, L, v) ==
    IF p < L
    THEN IF v = 1 THEN Found(<<Str(Url(p + 1))>>)
         ELSE Found(<<Str(<<" ">> \o Url(p + 1) \o <<" ">>)>>)
    ELSE IF v = 1 THEN Found(<<>>)
         ELSE IF v = 2 THEN QueryError
         ELSE Found(<<Str(<<" ">>)>>)

\* The catalogs of L pages chained by their next-pointers.
Catalogs(L) ==
    {[p \in 1..L |-> [items |-> ItemsChoice(p, it[p]), next |-> NextChoice(p, L, nx[p])]] :
        it \in [1..L -> 0..3], nx \in [1..L -> 1..3]}

VARIABLES wpc, depth, hasNext, catalog, url, counter, fields, visited, werr

walkVars == <<wpc, depth, hasNext, catalog, url, counter, fields, visited, werr>>

WalkIdle ==
    /\ wpc = "idle"
    /\ depth = 1
    /\ hasNext = FALSE
    /\ catalog = <<>>
    /\ url = <<>>
    /\ counter = 0
    /\ fields = <<>>
    /\ visited = <<>>
    /\ werr = "none"

\* A SearchPage subclass (with or without the Next attribute) and a site.
WalkDefined ==
    /\ wpc = "new"
    /\ depth = 1
    /\ hasNext \in BOOLEAN
    /\ \E L \in 1..MaxPages : catalog \in Catalogs(L)
    /\ url = <<>>
    /\ counter = 0
    /\ fields = <<>>
    /\ visited = <<>>
    /\ werr = "none"

\* The asserts without the one on Next, lines 70-72.
DepthAcceptedWithoutNext(d, next) == d >= 0

\* The two asserts of SearchPage.__init__, lines 68-72.
DepthAccepted(d, next) == d >= 0 /\ (~next => d = 1)

\* The loop condition one off: "<=" for "<".
LoopConditionOffByOne(c, d) == c <= d \/ d = 0

\* The loop condition of SearchPage._load, line 91.
LoopCondition(c, d) == c < d \/ d = 0

\* The page's items put in front of the accumulated ones.
ExtendInFront(acc, items) == items \o acc

\* self._fields.extend(items), line 96.
Extend(acc, items) == acc \o items

\* SearchPage.__init__, lines 68-79, up to the call of self._load(url).
WalkConstruct ==
    /\ wpc = "new"
    /\ \E d \in -1..MaxDepth :
        IF DepthAccepted(d, hasNext)
        THEN /\ wpc' = "loop"
             /\ depth' = d
             /\ url' = Url(1)
             /\ werr' = werr
        ELSE /\ wpc' = "raised"
             /\ depth' = d
             /\ url' = url
             /\ werr' = "AssertionError"
    /\ UNCHANGED <<hasNext, catalog, counter, fields, visited, sessions>>

\* One pass through the body of the while loop of SearchPage._load, lines
\* 93-102; the recursive call of line 100 re-enters the loop with next_url.
WalkIterate ==
    /\ wpc = "loop"
    /\ LoopCondition(counter, depth)
    /\ sessions' = sessions + 1
    /\ visited' = Append(visited, PageOf(url))
    /\ \E outcome \in LoadOutcomes :
        LET page == catalog[PageOf(url)]
            next_url == IF hasNext THEN Evaluate(page.next, FALSE) ELSE None
            items == Evaluate(page.items, TRUE)
        IN  \/ /\ outcome = "raises"
               /\ wpc' = "raised"
               /\ werr' = "LoadError"
               /\ UNCHANGED <<url, counter, fields>>
            \/ /\ outcome = "ready"
               /\ ~IsList(items)
               /\ wpc' = "raised"
               /\ werr' = "TypeError"
               /\ UNCHANGED <<url, counter, fields>>
            \/ /\ outcome = "ready"
               /\ IsList(items)
               /\ fields' = Extend(fields, items.items)
               /\ counter' = counter + 1
               /\ IF Truthy(next_url)
                  THEN wpc' = "loop" /\ url' = next_url.chars
                  ELSE wpc' = "done" /\ url' = url
               /\ werr' = werr
    /\ UNCHANGED <<depth, hasNext, catalog>>

\* The loop condition fails: _load, and with it __init__, returns.
WalkExit ==
    /\ wpc = "loop"
    /\ ~LoopCondition(counter, depth)
    /\ wpc' = "done"
    /\ UNCHANGED <<depth, hasNext, catalog, url, counter, fields, visited, werr, sessions>>

\* ---------------------------------------------------------------- ItemPage
\* A teaser card as SearchPage.mine hands it to ItemPage: an lxml element,
\* its base64 dump or a string that does not decode (ref); what the Child
\* selector finds in it; whether Adept accepts the record built from its
\* item page; whether instance() raises (model.json()).
GoodChild == Found(<<Str(Url(1))>>)

CardKinds ==
    {[ref |-> "badb64", child |-> Found(<<>>), valid |-> TRUE, callRaises |-> FALSE],
     [ref |-> "node", child |-> Found(<<>>), valid |-> TRUE, callRaises |-> FALSE],
     [ref |-> "node", child |-> GoodChild, valid |-> TRUE, callRaises |-> FALSE],
     [ref |-> "b64", child |-> GoodChild, valid |-> TRUE, callRaises |-> FALSE],
     [ref |-> "node", child |-> GoodChild, valid |-> FALSE, callRaises |-> FALSE],
     [ref |-> "node", child |-> GoodChild, valid |-> TRUE, callRaises |-> TRUE]}

\* The cards ItemPage is built on one at a time: those of mine, and cards
\* in which the Child query raises (the Field returns None) or finds blank
\* text (the Field returns the empty string).
ItemCards ==
    CardKinds \cup
    {[ref |-> "node", child |-> QueryError, valid |-> TRUE, callRaises |-> FALSE],
     [ref |-> "b64", child |-> Found(<<Str(<<" ">>)>>), valid |-> TRUE, callRaises |-> FALSE]}

\* An __init__ without the assert of line 86.
ItemPrepareWithoutAssert(card) ==
    IF card.ref = "badb64" THEN "WrongBase64" ELSE "load"

\* An __init__ that evaluates Child before it decodes the reference.
ItemPrepareChildFirst(card) ==
    IF ~Truthy(Evaluate(card.child, FALSE)) THEN "AssertionError"
    ELSE IF card.ref = "badb64" THEN "WrongBase64"
    ELSE "load"

\* ItemPage.__init__, lines 71-86, up to the call of self.Loader(self.url):
\* the exception raised, or "load" when the item page is to be loaded.
ItemPrepare(card) ==
    IF card.ref = "badb64" THEN "WrongBase64"
    ELSE IF ~Truthy(Evaluate(card.child, FALSE)) THEN "AssertionError"
    ELSE "load"

\* The record ItemPage builds for teaser i (self._data after _processing).
Record(i) == [kind |-> "record", of |-> i]

\* ItemPage.__call__, lines 154-157, on the instance built for teaser i.
ItemCall(i, card) ==
    IF ~card.valid THEN [raised |-> FALSE, ret |-> None]
    ELSE IF card.callRaises THEN [raised |-> TRUE, ret |-> None]
    ELSE [raised |-> FALSE, ret |-> Record(i)]

\* ------------------------------------------------- ItemPage, step by step
MaxBuilds == 2

\* A dict, and the entries of a datamap: a Field subclass (f names it), a
\* nested dict, or any other value (a literal).
Dict(m) == [kind |-> "dict", m |-> m]
FieldLeaf(f) == [kind |-> "field", f |-> f]

\* The Field subclasses of the datamaps and their source attribute
\* (Source.PARENT or Source.CHILD).
ItemFields == {"n", "p"}
SourceOf(f) == IF f = "n" THEN "parent" ELSE "child"

\* datamap: a flat one, and one with a nested dict and a literal.
Datamaps ==
    {Dict([n |-> FieldLeaf("n")]),
     Dict([n |-> FieldLeaf("n"),
           o |-> Dict([p |-> FieldLeaf("p")]),
           s |-> Str(<<"a">>)])}

\* The datamap argument of the constructor: a dict of the caller, possibly
\* the empty one.
ArgDatamaps == Datamaps \cup {Dict(<<>>)}

\* An ItemPage subclass: its name, whether it has an Adept, its datamap.
ItemClasses ==
    [name : {"ItemA", "ItemB"}, hasAdept : BOOLEAN, datamap : Datamaps]

\* The documents of teaser t: the card (parent) and the item page (child);
\* the text field f finds in a document.
Tree(t) ==
    [parent |-> [side |-> "parent", of |-> t],
     child |-> [side |-> "child", of |-> t]]

TextIn(f, doc) ==
    <<" ", f, IF doc.side = "parent" THEN "c" ELSE "i">> \o [i \in 1..doc.of |-> "t"]

\* e.WrongBase64(additional) and the other exceptions.
WrongBase64(additional) == [type |-> "WrongBase64", additional |-> additional]
Error(type) == [type |-> type, additional |-> ""]
NoError == Error("none")

\* self.model.json()
Json(data) == [kind |-> "json", of |-> data]

\* deepcopy(self.datamap): an equal dict that shares nothing with it.
deepcopy(d) == d

\* A _processing in which one Field that raises leaves every Field of the
\* record without a value.
RECURSIVE ProcessingAllOrNothing(_, _, _)
ProcessingAllOrNothing(data, tree, broken) ==
    Dict([key \in DOMAIN data.m |->
            LET field == data.m[key]
            IN  IF field.kind = "field"
                THEN IF broken # {}
                     THEN None
                     ELSE Evaluate(Found(<<Str(TextIn(field.f, tree[SourceOf(field.f)]))>>),
                                   FALSE)
                ELSE IF field.kind = "dict"
                     THEN ProcessingAllOrNothing(field, tree, broken)
                     ELSE field])

\* ItemPage._processing, lines 117-144: the dict after the loop, on the
\* documents tree, with the Fields in broken raising.
RECURSIVE Processing(_, _, _)
Processing(data, tree, broken) ==
    Dict([key \in DOMAIN data.m |->
            LET field == data.m[key]
            IN  IF field.kind = "field"
                THEN IF field.f \in broken
                     THEN None
                     ELSE Evaluate(Found(<<Str(TextIn(field.f, tree[SourceOf(field.f)]))>>),
                                   FALSE)
                ELSE IF field.kind = "dict"
                     THEN Processing(field, tree, broken)
                     ELSE field])

\* A __call__ that hands the record out whatever the validation said.
CallIgnoringBadData(bad, adept, jsonRaises, data) ==
    [raised |-> FALSE, ret |-> data]

\* ItemPage.__call__, lines 154-157: bad is self._bad_data, adept whether
\* self.model is set, data self._data.
Call(bad, adept, jsonRaises, data) ==
    IF bad THEN [raised |-> FALSE, ret |-> None]
    ELSE IF adept
         THEN IF jsonRaises
              THEN [raised |-> TRUE, ret |-> None]
              ELSE [raised |-> FALSE, ret |-> Json(data)]
         ELSE [raised |-> FALSE, ret |-> data]

\* A validation whose failure is not caught.
ValidatedOrRaises(hasAdept, valid) ==
    [raised |-> hasAdept /\ ~valid, bad |-> FALSE]

\* Lines 91-95: self._adept = self.Adept(**self._data) if self.Adept else
\* None under try/except Exception: whether __init__ raises and whether
\* self._bad_data is set.
Validated(hasAdept, valid) ==
    [raised |-> FALSE, bad |-> hasAdept /\ ~valid]

\* Line 71: self._data = datamap if datamap else deepcopy(self.datamap).
\* alias says that self._data is the caller's dict itself.
Bind(arg, cls) ==
    IF Truthy(arg)
    THEN [data |-> arg, alias |-> TRUE]
    ELSE [data |-> deepcopy(cls), alias |-> FALSE]

VARIABLES ipc, icls, imap, imap0, builds, icard, ibound, idata, iurl, ierr, iret,
          ibad, ichild, iloaded, ibroken

itemVars ==
    <<ipc, icls, imap, imap0, builds, icard, ibound, idata, iurl, ierr, iret,
      ibad, ichild, iloaded, ibroken>>

NoCard == [ref |-> "node", child |-> Found(<<>>), valid |-> TRUE, callRaises |-> FALSE]

ItemIdle ==
    /\ ipc = "idle"
    /\ icls = [name |-> "ItemA", hasAdept |-> FALSE, datamap |-> Dict(<<>>)]
    /\ imap = [cls |-> Dict(<<>>), arg |-> Dict(<<>>)]
    /\ imap0 = imap
    /\ builds = 0
    /\ icard = NoCard
    /\ ibound = [data |-> Dict(<<>>), alias |-> FALSE]
    /\ idata = Dict(<<>>)
    /\ iurl = None
    /\ ierr = NoError
    /\ iret = None
    /\ ibad = FALSE
    /\ ichild = FALSE
    /\ iloaded = FALSE
    /\ ibroken = {}

\* An ItemPage subclass is defined (__init_subclass__) and a caller holds a
\* dict it may pass as datamap.  imap is the two dicts as they are now:
\* cls.datamap and the caller's; imap0 is what they were.  ichild and
\* iloaded say whether the build under way has evaluated Child and has
\* called the Loader, ibroken which Fields raised in its _processing.
ItemDefined ==
    /\ ipc = "defined"
    /\ icls \in ItemClasses
    /\ \E arg \in ArgDatamaps : imap = [cls |-> icls.datamap, arg |-> arg]
    /\ imap0 = imap
    /\ builds = 0
    /\ icard = NoCard
    /\ ibound = [data |-> Dict(<<>>), alias |-> FALSE]
    /\ idata = Dict(<<>>)
    /\ iurl = None
    /\ ierr = NoError
    /\ iret = None
    /\ ibad = FALSE
    /\ ichild = FALSE
    /\ iloaded = FALSE
    /\ ibroken = {}

\* ItemPage(parent) or ItemPage(parent, datamap), lines 71-88, up to the
\* call of self.Loader(self.url), which opens a driver session.
ItemNew ==
    /\ ipc \in {"defined", "returned", "raised"}
    /\ builds < MaxBuilds
    /\ builds' = builds + 1
    /\ \E card \in ItemCards, passes \in BOOLEAN :
        LET prep == ItemPrepare(card)
        IN  /\ icard' = card
            /\ ibound' = Bind(IF passes THEN imap.arg ELSE None, imap.cls)
            /\ idata' = ibound'.data
            /\ ichild' = (prep # "WrongBase64")
            /\ iloaded' = (prep = "load")
            /\ iurl' = IF prep = "WrongBase64" THEN None ELSE Evaluate(card.child, FALSE)
            /\ IF prep = "load"
               THEN /\ ipc' = "loading"
                    /\ ierr' = NoError
                    /\ sessions' = sessions + 1
               ELSE /\ ipc' = "raised"
                    /\ ierr' = IF prep = "WrongBase64"
                               THEN WrongBase64(icls.name)
                               ELSE Error(prep)
                    /\ UNCHANGED sessions
    /\ iret' = None
    /\ ibad' = FALSE
    /\ ibroken' = {}
    /\ UNCHANGED <<icls, imap, imap0>>

\* self.Loader(self.url)() ends, lines 88-97: it raised, or the record is
\* built by _processing and validated by Adept.
ItemLoaded ==
    /\ ipc = "loading"
    /\ \E load \in LoadOutcomes, broken \in {{}, {"n"}, {"p"}} :
        IF load = "raises"
        THEN /\ ipc' = "raised"
             /\ ierr' = Error("LoadError")
             /\ UNCHANGED <<idata, imap, ibad, ibroken>>
        ELSE LET v == Validated(icls.hasAdept, icard.valid)
             IN  /\ ipc' = IF v.raised THEN "raised" ELSE "built"
                 /\ ierr' = IF v.raised THEN Error("ValidationError") ELSE ierr
                 /\ ibroken' = broken
                 /\ idata' = Processing(ibound.data, Tree(builds), broken)
                 /\ imap' = IF ibound.alias THEN [imap EXCEPT !.arg = idata'] ELSE imap
                 /\ ibad' = v.bad
    /\ UNCHANGED <<icls, imap0, builds, icard, ibound, iurl, iret, ichild, iloaded,
                   sessions>>

\* instance(): ItemPage.__call__.
ItemInvoke ==
    /\ ipc = "built"
    /\ LET r == Call(ibad, icls.hasAdept, icard.callRaises, idata)
       IN  /\ ipc' = IF r.raised THEN "raised" ELSE "returned"
           /\ ierr' = IF r.raised THEN Error("JsonError") ELSE ierr
           /\ iret' = r.ret
    /\ UNCHANGED <<icls, imap, imap0, builds, icard, ibound, idata, iurl, ibad, ichild,
                   iloaded, ibroken, sessions>>
\* --------------------------------------------------------- SearchPage.mine
MaxCards == 3
MaxWorkers == 2

VARIABLES mpc, cards, workers, mi, futures, yielded, data, logged, outcome, loadBy

mineVars == <<mpc, cards, workers, mi, futures, yielded, data, logged, outcome, loadBy>>

MineIdle ==
    /\ mpc = "idle"
    /\ cards = <<>>
    /\ workers = 1
    /\ mi = 1
    /\ futures = <<>>
    /\ yielded = {}
    /\ data = <<>>
    /\ logged = 0
    /\ outcome = <<>>
    /\ loadBy = "none"

\* mine(item, workers) is called on a SearchPage whose teasers are cards.
MineCalled ==
    /\ mpc = "submit"
    /\ cards \in SeqsUpTo(CardKinds, MaxCards)
    /\ workers \in 1..MaxWorkers
    /\ mi = 1
    /\ futures = <<>>
    /\ yielded = {}
    /\ data = <<>>
    /\ logged = 0
    /\ outcome = [i \in 1..Len(cards) |-> "pending"]
    /\ loadBy = "none"

\* Handlers that catch the decoding error only.
CaughtWrongBase64Only(ex) == ex = "WrongBase64"

\* "except Exception", lines 140 and 147: the exceptions the handlers catch.
Caught(ex) == ex \in {"WrongBase64", "AssertionError", "LoadError", "CallError"}

\* The thread that evaluates item(card), the argument of executor.submit,
\* line 139.
Constructor == "submitter"

\* Line 139, first half: item(card) runs ItemPage.__init__ up to its page
\* load; an exception ends in the handler of line 140.
SubmitPrepare ==
    /\ mpc = "submit"
    /\ mi <= Len(cards)
    /\ LET step == ItemPrepare(cards[mi])
       IN  IF step = "load"
           THEN /\ sessions' = sessions + 1
                /\ loadBy' = Constructor
                /\ mpc' = "building"
                /\ UNCHANGED <<mi, logged, outcome>>
           ELSE /\ IF Caught(step)
                   THEN mpc' = mpc /\ mi' = mi + 1 /\ logged' = logged + 1
                   ELSE mpc' = "raised" /\ mi' = mi /\ logged' = logged
                /\ outcome' = [outcome EXCEPT ![mi] = "ctor_raised"]
                /\ UNCHANGED <<sessions, loadBy>>
    /\ UNCHANGED <<cards, workers, futures, yielded, data>>

\* Line 139, second half: the page load of ItemPage.__init__ (line 88) ends,
\* _processing and Adept run, and the instance is submitted to the pool.
SubmitFinish ==
    /\ mpc = "building"
    /\ loadBy' = "none"
    /\ \E loaded \in LoadOutcomes :
        \/ /\ loaded = "raises"
           /\ IF Caught("LoadError")
              THEN mpc' = "submit" /\ mi' = mi + 1 /\ logged' = logged + 1
              ELSE mpc' = "raised" /\ mi' = mi /\ logged' = logged
           /\ outcome' = [outcome EXCEPT ![mi] = "ctor_raised"]
           /\ futures' = futures
        \/ /\ loaded = "ready"
           /\ futures' = Append(futures, [card |-> mi, state |-> "queued", ret |-> None])
           /\ mpc' = "submit"
           /\ mi' = mi + 1
           /\ UNCHANGED <<logged, outcome>>
    /\ UNCHANGED <<cards, workers, yielded, data, sessions>>

\* The for loop of line 136 is exhausted.
SubmitDone ==
    /\ mpc = "submit"
    /\ mi > Len(cards)
    /\ mpc' = "collect"
    /\ UNCHANGED <<cards, workers, mi, futures, yielded, data, logged, outcome, loadBy, sessions>>

Running == {f \in 1..Len(futures) : futures[f].state = "running"}
Queued == {f \in 1..Len(futures) : futures[f].state = "queued"}

\* A free worker of the ThreadPoolExecutor takes the oldest queued task.
WorkerStart ==
    /\ mpc \in {"submit", "building", "collect"}
    /\ Queued # {}
    /\ Cardinality(Running) < workers
    /\ LET f == CHOOSE g \in Queued : \A h \in Queued : g <= h
       IN  futures' = [futures EXCEPT ![f].state = "running"]
    /\ UNCHANGED <<mpc, cards, workers, mi, yielded, data, logged, outcome, loadBy, sessions>>

\* A worker ends its task, the call instance() of an ItemPage.
WorkerFinish ==
    /\ \E f \in Running :
        LET r == ItemCall(futures[f].card, cards[futures[f].card])
        IN  /\ futures' = [futures EXCEPT
                    ![f].state = IF r.raised THEN "failed" ELSE "done",
                    ![f].ret = r.ret]
            /\ outcome' = [outcome EXCEPT
                    ![futures[f].card] = IF r.raised THEN "call_raised" ELSE "ok"]
    /\ UNCHANGED <<mpc, cards, workers, mi, yielded, data, logged, loadBy, sessions>>

\* One pass of the loop over as_completed(futures), lines 143-148.
Collect ==
    /\ mpc = "collect"
    /\ \E f \in 1..Len(futures) :
        /\ f \notin yielded
        /\ futures[f].state \in {"done", "failed"}
        /\ yielded' = yielded \cup {f}
        /\ IF futures[f].state = "done"
           THEN /\ data' = Append(data, futures[f].ret)
                /\ UNCHANGED <<mpc, logged>>
           ELSE /\ IF Caught("CallError")
                   THEN mpc' = mpc /\ logged' = logged + 1
                   ELSE mpc' = "raised" /\ logged' = logged
                /\ data' = data
    /\ UNCHANGED <<cards, workers, mi, futures, outcome, loadBy, sessions>>

\* as_completed is exhausted, the executor shuts down, mine returns data.
MineReturn ==
    /\ mpc = "collect"
    /\ yielded = 1..Len(futures)
    /\ mpc' = "returned"
    /\ UNCHANGED <<cards, workers, mi, futures, yielded, data, logged, outcome, loadBy, sessions>>

\* ------------------------------------------------------------------ Loader
MaxSteps == 2
MaxRepeat == 2
MaxAttempts == 3
MaxChanges == 3
MaxCalls == 3

\* Loader.timeout, the class attribute's default.
Timeout == 3

\* A Loader subclass: how many denotificators and thereare selectors it
\* lists (none when the attribute is absent) and the counts N of its click
\* steps (Method, N, Xpath).
LoaderClasses ==
    [denotificators : 0..MaxSteps,
     thereare : 0..MaxSteps,
     click : SeqsUpTo(0..MaxRepeat, MaxSteps)]

Max(a, b) == IF a >= b THEN a ELSE b

\* How a WebDriverWait(driver, t).until(...) followed by its action ends:
\* the element is found and acted on, the wait raises TimeoutException, or
\* another WebDriverException is raised.
WaitResults == {"found", "timeout", "error"}

\* round(time.time() - start) for one wait granted t seconds: a wait that
\* times out lasts at least t, and none lasts longer than t plus one poll.
Elapsed(res, t) ==
    IF res = "timeout" THEN {Max(t, 0), Max(t, 0) + 1} ELSE 0..(Max(t, 0) + 1)

\* round(time.time() - start) for the while loop of one click step after n
\* waits of t seconds each, the last of which ended as res: the shortest
\* and the longest time the loop can have taken, and one second more than
\* the shortest.
LoopElapsed(n, res, t) ==
    LET least == IF res = "timeout" THEN Max(t, 0) ELSE 0
        most == n * (Max(t, 0) + 1)
    IN  {least, most} \cup {e \in {least + 1} : e <= most}

\* A budget handed out afresh to every step.
RemainingRestarted(free, e) == Timeout

\* "free_timeout -= round(time.time() - start)", lines 153, 167 and 219.
Remaining(free, e) == free - e

\* A handler that catches the TimeoutException of the wait only.
DismissCaughtTimeoutOnly(res) == res = "timeout"

\* "except Exception as ex" in the loop of _denotificators_, lines 148-151:
\* whether the exception a step ended with is caught.
DismissCaught(res) == TRUE

\* A loop that goes round once more than count says.
WhileConditionOneMore(count, left) == count = 0 \/ left >= 0

\* "while count == 0 or counter > 0", line 182, with left for counter.
WhileCondition(count, left) == count = 0 \/ left > 0

\* The phases in the order of the class docstring: load, banners, clicks,
\* then the wait for the page elements.
PhaseAfterDocstring(phase) ==
    CASE phase = "dismiss" -> "click"
      [] phase = "click" -> "presence"
      [] phase = "presence" -> "ready"

\* Loader.__init__, lines 238-256: what follows _denotificators_, _thereare_
\* and _click_.
PhaseAfter(phase) ==
    CASE phase = "dismiss" -> "presence"
      [] phase = "presence" -> "click"
      [] phase = "click" -> "ready"

\* lpc is the phase of __init__; lstep the position of the for loop of the
\* phase; free_timeout, click_counter (counter) and confirmed_pages are the
\* locals of the phase methods.  events lists, in the order they happened,
\* driver.get and the steps begun in each phase; consumed says that the
\* phases already left have taken time.  lwait is the last wait of the phase
\* under way: its number n among the waits of the phase, the step of the for
\* loop it belongs to, the timeout WebDriverWait was given, the rounded time
\* the waits before it took, the rounded time it took, how it ended and how
\* many waits of the phase have ended in an exception; in _click_, how the
\* last wait ended.
VARIABLES lpc, lcfg, lstep, free_timeout, click_counter, confirmed_pages,
          timedOut, clicksAfterTimeout, lerr, events, consumed, lwait

loaderVars == <<lpc, lcfg, lstep, free_timeout, click_counter, confirmed_pages,
                timedOut, clicksAfterTimeout, lerr, events, consumed, lwait>>

NoWait ==
    [n |-> 0, step |-> 0, granted |-> Timeout, before |-> 0, took |-> 0, res |-> "found",
     failures |-> 0]

Waited(res, e) ==
    [n |-> lwait.n + 1, step |-> lstep, granted |-> free_timeout,
     before |-> lwait.before + lwait.took, took |-> e, res |-> res,
     failures |-> lwait.failures + (IF res = "found" THEN 0 ELSE 1)]

\* driver.page_source as the browser has it now (the number of times the
\* page has changed since the load) and the documents the instance has
\* returned.
VARIABLES page, docs

pageVars == <<page, docs>>

PageIdle == page = 0 /\ docs = <<>>

LoaderIdle ==
    /\ lpc = "idle"
    /\ lcfg = [denotificators |-> 0, thereare |-> 0, click |-> <<>>]
    /\ lstep = 1
    /\ free_timeout = Timeout
    /\ click_counter = 0
    /\ confirmed_pages = 0
    /\ timedOut = FALSE
    /\ clicksAfterTimeout = 0
    /\ lerr = "none"
    /\ events = <<>>
    /\ consumed = FALSE
    /\ lwait = NoWait
    /\ PageIdle

LoaderDefined ==
    /\ lpc = "created"
    /\ lcfg \in LoaderClasses
    /\ lstep = 1
    /\ free_timeout = Timeout
    /\ click_counter = 0
    /\ confirmed_pages = 0
    /\ timedOut = FALSE
    /\ clicksAfterTimeout = 0
    /\ lerr = "none"
    /\ events = <<>>
    /\ consumed = FALSE
    /\ lwait = NoWait
    /\ PageIdle

\* "counter = count; confirmed_pages = 0", lines 178-180, for click step k.
CountOf(k) == IF k <= Len(lcfg.click) THEN lcfg.click[k] ELSE 0

\* What Loader.__init__ does with a TimeoutException of the presence wait
\* that leaves _thereare_, lines 245-248: the phase the load goes on with.
AfterPresenceTimeout == "click"

\* The number of steps the class lists for a phase (none when the attribute
\* is absent).
StepsOf(phase) ==
    CASE phase = "dismiss" -> lcfg.denotificators
      [] phase = "presence" -> lcfg.thereare
      [] phase = "click" -> Len(lcfg.click)
      [] OTHER -> 0

\* Loader.__init__, lines 229-236: the session is opened and driver.get(url)
\* returns or raises.
Navigate ==
    /\ lpc = "created"
    /\ sessions' = sessions + 1
    /\ \E ok \in BOOLEAN :
        IF ok
        THEN lpc' = "dismiss" /\ lerr' = lerr
        ELSE lpc' = "failed" /\ lerr' = "WebDriverException"
    /\ lstep' = 1
    /\ free_timeout' = Timeout
    /\ events' = Append(events, "navigate")
    /\ UNCHANGED <<lcfg, click_counter, confirmed_pages, timedOut, clicksAfterTimeout,
                   consumed, lwait>>

\* One pass of the loop of _denotificators_, lines 125-155: every exception
\* is caught inside the loop.
DismissStep ==
    /\ lpc = "dismiss"
    /\ lstep <= lcfg.denotificators
    /\ \E res \in WaitResults : \E e \in Elapsed(res, free_timeout) :
        /\ lwait' = Waited(res, e)
        /\ IF res = "found" \/ DismissCaught(res)
           THEN /\ free_timeout' = Remaining(free_timeout, e)
                /\ lstep' = lstep + 1
                /\ UNCHANGED <<lpc, lerr>>
           ELSE /\ lpc' = "failed"
                /\ lerr' = "WebDriverException"
                /\ UNCHANGED <<lstep, free_timeout>>
    /\ events' = Append(events, "dismiss")
    /\ UNCHANGED <<lcfg, click_counter, confirmed_pages, timedOut,
                   clicksAfterTimeout, consumed, sessions>>

\* A phase method returns (or its attribute is absent) and __init__ goes on
\* to what follows it; the next method starts with
\* free_timeout = self.timeout (lines 124, 161, 175).
PhaseEnd(phase) ==
    /\ lpc = phase
    /\ lstep > StepsOf(phase)
    /\ lpc' = PhaseAfter(phase)
    /\ lstep' = 1
    /\ free_timeout' = Timeout
    /\ click_counter' = IF PhaseAfter(phase) = "click" THEN CountOf(1) ELSE 0
    /\ confirmed_pages' = 0
    /\ consumed' = (consumed \/ free_timeout < Timeout)
    /\ lwait' = NoWait
    /\ UNCHANGED <<lcfg, timedOut, clicksAfterTimeout, lerr, events, sessions>>

\* _denotificators_ returns, lines 238-242.
DismissEnd == PhaseEnd("dismiss")

\* One pass of the loop of _thereare_, lines 162-169, with the handler of
\* Loader.__init__, lines 245-248, around it.
PresenceStep ==
    /\ lpc = "presence"
    /\ lstep <= lcfg.thereare
    /\ \E res \in WaitResults : \E e \in Elapsed(res, free_timeout) :
        \/ /\ res = "found"
           /\ free_timeout' = Remaining(free_timeout, e)
           /\ IF free_timeout' < 0
              THEN lpc' = "failed" /\ lerr' = "TimeoutError" /\ lstep' = lstep
              ELSE lpc' = lpc /\ lerr' = lerr /\ lstep' = lstep + 1
           /\ lwait' = Waited(res, e)
           /\ UNCHANGED <<click_counter, timedOut, consumed>>
        \/ /\ res = "timeout"
           /\ timedOut' = TRUE
           /\ lpc' = AfterPresenceTimeout
           /\ lstep' = 1
           /\ free_timeout' = Timeout
           /\ click_counter' = CountOf(1)
           /\ consumed' = (consumed \/ free_timeout < Timeout \/ e > 0)
           /\ lerr' = IF AfterPresenceTimeout = "failed" THEN "TimeoutException" ELSE lerr
           /\ lwait' = NoWait
        \/ /\ res = "error"
           /\ lpc' = "failed"
           /\ lerr' = "WebDriverException"
           /\ lwait' = NoWait
           /\ UNCHANGED <<lstep, free_timeout, click_counter, timedOut, consumed>>
    /\ events' = Append(events, "presence")
    /\ UNCHANGED <<lcfg, confirmed_pages, clicksAfterTimeout, sessions>>

\* _thereare_ returns, lines 244-248.
PresenceEnd == PhaseEnd("presence")

\* Lines 219-221 and the next pass of the for loop of _click_: the while
\* loop of step lstep is left after n waits, the last of which ended as res.
ClickStepLeft(n, res) ==
    /\ \E e \in LoopElapsed(n, res, free_timeout) :
        free_timeout' = Remaining(free_timeout, e)
    /\ lstep' = lstep + 1
    /\ click_counter' = CountOf(lstep + 1)
    /\ confirmed_pages' = 0

\* One pass of the while loop of _click_, lines 182-217: the wait and the
\* action succeed, or an exception breaks the loop.
ClickAttempt ==
    /\ lpc = "click"
    /\ lstep <= Len(lcfg.click)
    /\ WhileCondition(lcfg.click[lstep], click_counter)
    /\ \E res \in WaitResults :
        /\ lwait' = [NoWait EXCEPT !.res = res]
        /\ IF res = "found"
           THEN /\ confirmed_pages < MaxAttempts
                /\ confirmed_pages' = confirmed_pages + 1
                /\ click_counter' = click_counter - 1
                /\ UNCHANGED <<lstep, free_timeout>>
           ELSE ClickStepLeft(confirmed_pages + 1, res)
    /\ clicksAfterTimeout' = IF timedOut THEN clicksAfterTimeout + 1 ELSE clicksAfterTimeout
    /\ events' = IF confirmed_pages = 0 THEN Append(events, "click") ELSE events
    /\ UNCHANGED <<lpc, lcfg, timedOut, lerr, consumed, sessions>>

\* The condition of the while loop fails: lines 219-221, and the next step
\* of the for loop starts.
ClickStepEnd ==
    /\ lpc = "click"
    /\ lstep <= Len(lcfg.click)
    /\ ~WhileCondition(lcfg.click[lstep], click_counter)
    /\ ClickStepLeft(confirmed_pages, "found")
    /\ UNCHANGED <<lpc, lcfg, timedOut, clicksAfterTimeout, lerr, events, consumed,
                   lwait, sessions>>

\* _click_ returns, lines 250-256: self._driver = driver, and the instance
\* can hand out its page.
ClickEnd == PhaseEnd("click")

\* The page changes in the browser after the load (scripts, timers).
PageChanges ==
    /\ lpc = "ready"
    /\ page < MaxChanges
    /\ page' = page + 1
    /\ UNCHANGED docs

\* html.fromstring(source)
Parse(source) == [kind |-> "document", of |-> source]

\* instance(): Loader.__call__ and the property html, lines 268-277.
LoaderCall ==
    /\ lpc = "ready"
    /\ Len(docs) < MaxCalls
    /\ docs' = Append(docs, Parse(page))
    /\ UNCHANGED page

\* Loader.quit, lines 279-283.
Quit ==
    /\ lpc = "ready"
    /\ lpc' = "closed"
    /\ sessions' = sessions - 1
    /\ UNCHANGED <<lcfg, lstep, free_timeout, click_counter, confirmed_pages,
                   timedOut, clicksAfterTimeout, lerr, events, consumed, lwait>>

\* ------------------------------------------------------------------ Router
MaxUrlLen == 2
MaxPatternLen == 1
MaxVariants == 2

\* The URLs handed to Router(url), with what validators.url says of them,
\* and the compiled patterns: pattern.match(url) holds when the pattern,
\* here a literal, matches at the start of url.
RouterChars == {"a", "b"}

RouterUrls ==
    [chars : SeqsUpTo(RouterChars, MaxUrlLen) \ {<<>>}, valid : BOOLEAN]

Patterns == SeqsUpTo(RouterChars, MaxPatternLen)

Match(pattern, chars) ==
    /\ Len(pattern) <= Len(chars)
    /\ SubSeq(chars, 1, Len(pattern)) = pattern

\* The modules of the variants and the four attributes read from one.
Modules == {"m1", "m2"}

Bundle(mod) ==
    [CatalogLoader |-> <<mod, "CatalogLoader">>,
     CatalogPage |-> <<mod, "CatalogPage">>,
     ItemLoader |-> <<mod, "ItemLoader">>,
     ItemPage |-> <<mod, "ItemPage">>]

NoBundle == [CatalogLoader |-> <<>>, CatalogPage |-> <<>>, ItemLoader |-> <<>>, ItemPage |-> <<>>]

RouterClasses == SeqsUpTo([pattern : Patterns, mod : Modules], MaxVariants)

\* A loop without the break: the last matching pair wins.
RECURSIVE SelectLast(_, _, _, _)
SelectLast(vs, chars, i, sofar) ==
    IF i > Len(vs) THEN sofar
    ELSE IF Match(vs[i].pattern, chars)
         THEN SelectLast(vs, chars, i + 1, [found |-> TRUE, bundle |-> Bundle(vs[i].mod)])
         ELSE SelectLast(vs, chars, i + 1, sofar)

\* The for loop of Router.__init__, lines 75-87, from pair i on: found and
\* the four attributes as the loop leaves them.
RECURSIVE Select(_, _, _, _)
Select(vs, chars, i, sofar) ==
    IF i > Len(vs) THEN sofar
    ELSE IF Match(vs[i].pattern, chars)
         THEN [found |-> TRUE, bundle |-> Bundle(vs[i].mod)]
         ELSE Select(vs, chars, i + 1, sofar)

VARIABLES rpc, variants, rurl, rbundle, rerr, rcatalog

routerVars == <<rpc, variants, rurl, rbundle, rerr, rcatalog>>

NoUrl == [chars |-> <<>>, valid |-> FALSE]
NoCatalog == [type |-> <<>>, url |-> <<>>]

RouterIdle ==
    /\ rpc = "idle"
    /\ variants = <<>>
    /\ rurl = NoUrl
    /\ rbundle = NoBundle
    /\ rerr = [type |-> "none", url |-> <<>>]
    /\ rcatalog = NoCatalog

\* A Router subclass is defined: __init_subclass__ accepted its variants.
RouterDefined ==
    /\ rpc = "defined"
    /\ variants \in RouterClasses
    /\ rurl = NoUrl
    /\ rbundle = NoBundle
    /\ rerr = [type |-> "none", url |-> <<>>]
    /\ rcatalog = NoCatalog

\* Router(url): Router.__init__, lines 63-91.
RouterNew ==
    /\ rpc = "defined"
    /\ \E u \in RouterUrls :
        /\ rurl' = u
        /\ IF ~u.valid
           THEN /\ rpc' = "raised"
                /\ rerr' = [type |-> "AssertionError", url |-> <<>>]
                /\ rbundle' = rbundle
           ELSE LET sel == Select(variants, u.chars, 1, [found |-> FALSE, bundle |-> NoBundle])
                IN  IF sel.found
                    THEN /\ rpc' = "routed"
                         /\ rbundle' = sel.bundle
                         /\ rerr' = rerr
                    ELSE /\ rpc' = "raised"
                         /\ rerr' = [type |-> "RuntimeError", url |-> u.chars]
                         /\ rbundle' = rbundle
    /\ UNCHANGED <<variants, rcatalog>>

\* Router.get_catalog, lines 125-130: self.CatalogPage(self.url).
GetCatalog ==
    /\ rpc = "routed"
    /\ rcatalog = NoCatalog
    /\ rcatalog' = [type |-> rbundle.CatalogPage, url |-> rurl.chars]
    /\ UNCHANGED <<rpc, variants, rurl, rbundle, rerr>>
\* ---------------------------------------------------------- specifications
vars == <<fieldVars, walkVars, mineVars, loaderVars, pageVars, itemVars, routerVars, sessions>>

\* Field alone: a Field subclass is defined, instances are built on
\* documents and called.
InitField == FieldDefined /\ WalkIdle /\ MineIdle /\ LoaderIdle /\ ItemIdle /\ RouterIdle /\ sessions = 0
NextField ==
    \/ FieldNew /\ UNCHANGED <<walkVars, mineVars, loaderVars, pageVars, itemVars, routerVars, sessions>>
    \/ FieldInvoke /\ UNCHANGED <<walkVars, mineVars, loaderVars, pageVars, itemVars, routerVars, sessions>>
SpecField == InitField /\ [][NextField]_vars

\* SearchPage(url, depth) on a catalog.
InitWalk == WalkDefined /\ FieldIdle /\ MineIdle /\ LoaderIdle /\ ItemIdle /\ RouterIdle /\ sessions = 0
NextWalk ==
    \/ WalkConstruct /\ UNCHANGED <<fieldVars, mineVars, loaderVars, pageVars, itemVars, routerVars>>
    \/ WalkIterate /\ UNCHANGED <<fieldVars, mineVars, loaderVars, pageVars, itemVars, routerVars>>
    \/ WalkExit /\ UNCHANGED <<fieldVars, mineVars, loaderVars, pageVars, itemVars, routerVars>>
SpecWalk == InitWalk /\ [][NextWalk]_vars

\* SearchPage.mine on the teasers of a walked catalog.
InitMine == MineCalled /\ FieldIdle /\ WalkIdle /\ LoaderIdle /\ ItemIdle /\ RouterIdle /\ sessions = 0
NextMine ==
    \/ SubmitPrepare /\ UNCHANGED <<fieldVars, walkVars, loaderVars, pageVars, itemVars, routerVars>>
    \/ SubmitFinish /\ UNCHANGED <<fieldVars, walkVars, loaderVars, pageVars, itemVars, routerVars>>
    \/ SubmitDone /\ UNCHANGED <<fieldVars, walkVars, loaderVars, pageVars, itemVars, routerVars>>
    \/ WorkerStart /\ UNCHANGED <<fieldVars, walkVars, loaderVars, pageVars, itemVars, routerVars>>
    \/ WorkerFinish /\ UNCHANGED <<fieldVars, walkVars, loaderVars, pageVars, itemVars, routerVars>>
    \/ Collect /\ UNCHANGED <<fieldVars, walkVars, loaderVars, pageVars, itemVars, routerVars>>
    \/ MineReturn /\ UNCHANGED <<fieldVars, walkVars, loaderVars, pageVars, itemVars, routerVars>>
SpecMine == InitMine /\ [][NextMine]_vars

\* One Loader(url).
InitLoader == LoaderDefined /\ FieldIdle /\ WalkIdle /\ MineIdle /\ ItemIdle /\ RouterIdle /\ sessions = 0
NextLoader ==
    \/ Navigate /\ UNCHANGED <<fieldVars, walkVars, mineVars, pageVars, itemVars, routerVars>>
    \/ DismissStep /\ UNCHANGED <<fieldVars, walkVars, mineVars, pageVars, itemVars, routerVars>>
    \/ DismissEnd /\ UNCHANGED <<fieldVars, walkVars, mineVars, pageVars, itemVars, routerVars>>
    \/ PresenceStep /\ UNCHANGED <<fieldVars, walkVars, mineVars, pageVars, itemVars, routerVars>>
    \/ PresenceEnd /\ UNCHANGED <<fieldVars, walkVars, mineVars, pageVars, itemVars, routerVars>>
    \/ ClickAttempt /\ UNCHANGED <<fieldVars, walkVars, mineVars, pageVars, itemVars, routerVars>>
    \/ ClickStepEnd /\ UNCHANGED <<fieldVars, walkVars, mineVars, pageVars, itemVars, routerVars>>
    \/ ClickEnd /\ UNCHANGED <<fieldVars, walkVars, mineVars, pageVars, itemVars, routerVars>>
    \/ Quit /\ UNCHANGED <<fieldVars, walkVars, mineVars, pageVars, itemVars, routerVars>>
SpecLoader == InitLoader /\ [][NextLoader]_vars

\* ItemPage(parent[, datamap])() on one teaser after another.
InitItem == ItemDefined /\ FieldIdle /\ WalkIdle /\ MineIdle /\ LoaderIdle /\ RouterIdle /\ sessions = 0
NextItem ==
    \/ ItemNew /\ UNCHANGED <<fieldVars, walkVars, mineVars, loaderVars, pageVars, routerVars>>
    \/ ItemLoaded /\ UNCHANGED <<fieldVars, walkVars, mineVars, loaderVars, pageVars, routerVars>>
    \/ ItemInvoke /\ UNCHANGED <<fieldVars, walkVars, mineVars, loaderVars, pageVars, routerVars>>
SpecItem == InitItem /\ [][NextItem]_vars

\* A Loader without denotificators, thereare and click, and the calls of
\* its instance while the page lives on in the browser.
InitAccessor ==
    /\ LoaderDefined
    /\ lcfg = [denotificators |-> 0, thereare |-> 0, click |-> <<>>]
    /\ FieldIdle /\ WalkIdle /\ MineIdle /\ ItemIdle /\ RouterIdle /\ sessions = 0
NextAccessor ==
    \/ Navigate /\ UNCHANGED <<fieldVars, walkVars, mineVars, pageVars, itemVars, routerVars>>
    \/ DismissEnd /\ UNCHANGED <<fieldVars, walkVars, mineVars, pageVars, itemVars, routerVars>>
    \/ PresenceEnd /\ UNCHANGED <<fieldVars, walkVars, mineVars, pageVars, itemVars, routerVars>>
    \/ ClickEnd /\ UNCHANGED <<fieldVars, walkVars, mineVars, pageVars, itemVars, routerVars>>
    \/ PageChanges /\ UNCHANGED <<fieldVars, walkVars, mineVars, loaderVars, itemVars, routerVars, sessions>>
    \/ LoaderCall /\ UNCHANGED <<fieldVars, walkVars, mineVars, loaderVars, itemVars, routerVars, sessions>>
    \/ Quit /\ UNCHANGED <<fieldVars, walkVars, mineVars, pageVars, itemVars, routerVars>>
SpecAccessor == InitAccessor /\ [][NextAccessor]_vars

\* Router(url) on the variants of a Router subclass.
InitRouter ==
    /\ RouterDefined
    /\ FieldIdle /\ WalkIdle /\ MineIdle /\ LoaderIdle /\ ItemIdle /\ sessions = 0
NextRouter ==
    \/ RouterNew
        /\ UNCHANGED <<fieldVars, walkVars, mineVars, loaderVars, pageVars, itemVars, sessions>>
    \/ GetCatalog
        /\ UNCHANGED <<fieldVars, walkVars, mineVars, loaderVars, pageVars, itemVars, sessions>>
SpecRouter == InitRouter /\ [][NextRouter]_vars

\* ------------------------------------------------------------------ claims
Min(a, b) == IF a <= b THEN a ELSE b

RECURSIVE Flatten(_)
Flatten(ss) == IF ss = <<>> THEN <<>> ELSE Head(ss) \o Flatten(Tail(ss))

\* The number of listing pages a walk of depth d is to load on a chain of
\* L pages.
PagesToLoad(d, L) == IF d = 0 THEN L ELSE IF d = 1 THEN 1 ELSE Min(d, L)

C2_TeasersInPageOrder ==
    wpc = "done" =>
        /\ fields = Flatten([i \in 1..Len(visited) |-> catalog[visited[i]].items.nodes])
        /\ \A i, j \in DOMAIN fields : i < j => fields[i].id < fields[j].id

C2_Witness ==
    /\ wpc = "done"
    /\ depth = 0
    /\ Len(catalog) = 2
    /\ Len(fields) = 6
    /\ \A i \in 1..3 : fields[i] = Node(TeaserId(1, i)) /\ fields[3 + i] = Node(TeaserId(2, i))

\* The teasers whose aggregation cannot succeed whatever the driver does,
\* and the entry a teaser's aggregation yields when nothing raises.
AlwaysRaises(card) == ItemPrepare(card) # "load" \/ (card.valid /\ card.callRaises)
EntryOf(i) == IF cards[i].valid THEN Record(i) ELSE None

Occurrences(seq, v) == Cardinality({k \in DOMAIN seq : seq[k] = v})

\* C3: mine never raises; when it returns, data holds one entry for each
\* teaser whose aggregation did not raise, that entry being the one the
\* teaser yields on its own, and no entry for a teaser whose aggregation
\* raised.
C3_MineIsBestEffort ==
    /\ mpc # "raised"
    /\ mpc = "returned" =>
        LET good == {i \in DOMAIN cards : outcome[i] = "ok"}
        IN  /\ Len(data) = Cardinality(good)
            /\ \A i \in DOMAIN cards :
                /\ outcome[i] # "pending"
                /\ AlwaysRaises(cards[i]) => outcome[i] # "ok"
                /\ Occurrences(data, Record(i)) =
                       (IF i \in good /\ cards[i].valid THEN 1 ELSE 0)
            /\ Occurrences(data, None) = Cardinality({i \in good : ~cards[i].valid})
            /\ logged = Len(cards) - Cardinality(good)

C3_Witness ==
    /\ mpc = "returned"
    /\ Len(cards) = 3
    /\ cards[2].ref = "badb64"
    /\ outcome = <<"ok", "ctor_raised", "ok">>
    /\ Len(data) = 2
    /\ logged = 1

\* C4: the item page of a teaser is loaded by the pool task dispatched for
\* it, never by the thread that submits the tasks.
C4_ItemLoadsRunInPool == loadBy # "submitter"

\* C5: a required-presence wait that timed out makes the load fail: no
\* interaction step runs after it and the loader does not become Ready.
C5_PresenceTimeoutIsFatal ==
    timedOut => lpc = "failed" /\ clicksAfterTimeout = 0

\* C6: a walk is never aborted by the Items extraction of a visited page
\* having yielded null.
C6_ItemsFailureDoesNotAbortWalk == ~(wpc = "raised" /\ werr = "TypeError")

\* C7: when the walk has returned or failed, no driver session that it
\* opened is still open.
C7_SessionsReleased == wpc \in {"done", "raised"} => sessions = 0

\* C8: SearchPage constructed with a negative depth, or without Next and
\* with a depth other than 1, raises at once: no page is loaded, no
\* session is opened, no teaser is accumulated.
C8_DepthRejectedBeforeLoad ==
    (wpc # "new" /\ (depth < 0 \/ (~hasNext /\ depth # 1))) =>
        /\ wpc = "raised"
        /\ werr = "AssertionError"
        /\ visited = <<>>
        /\ fields = <<>>
        /\ sessions = 0

C8_Witness ==
    /\ wpc = "raised"
    /\ ~hasNext
    /\ depth = 2
    /\ sessions = 0

\* C9: a Field with array = False never returns a list.
C9_SingleModeNeverReturnsList ==
    (fpc = "returned" /\ ~fcls.array) => ~IsList(fret)

\* The canonical form of a string under the autocorrection dict as defined:
\* the first key that is the string or lists it.
Canonical(chars, cls) ==
    LET hits == {i \in DOMAIN cls.table :
                    cls.table[i].key = chars \/ InList(chars, cls.table[i].value)}
    IN  IF cls.hasAuto /\ hits # {}
        THEN cls.table[CHOOSE i \in hits : \A j \in hits : i <= j].key
        ELSE chars

ValueOf(v, cls) == IF IsStr(v) THEN Str(Canonical(Strip(v.chars), cls)) ELSE v

\* C10: on a query of zero nodes the Field returns None; on n >= 1 nodes it
\* returns the first node's value if array is False and the n values in
\* query order if array is True.
C10_ZeroNodesGiveNone ==
    (fpc = "returned" /\ fq.ok /\ fcls.parser = "stub") =>
        IF Len(fq.nodes) = 0 THEN fret = None
        ELSE IF ~fcls.array THEN fret = ValueOf(fq.nodes[1], fcls)
        ELSE fret = List([i \in 1..Len(fq.nodes) |-> ValueOf(fq.nodes[i], fcls)])


C12_FirstKeyInTableOrder ==
    (fpc = "returned" /\ fcls.parser = "stub" /\ fcls.hasAuto) =>
        /\ IsStr(content) => fret = Str(Canonical(content.chars, fcls))
        /\ IsList(content) =>
            /\ IsList(fret)
            /\ Len(fret.items) = Len(content.items)
            /\ \A i \in 1..Len(content.items) :
                IF IsStr(content.items[i])
                THEN fret.items[i] = Str(Canonical(content.items[i].chars, fcls))
                ELSE fret.items[i] = content.items[i]

\* The string 'aa' is a variant of both keys; it resolves to the key the
\* dict iterates first, here 'b'.
C12_Witness ==
    /\ fpc = "returned"
    /\ fcls.hasAuto
    /\ Len(fcls.table) = 2
    /\ fcls.table[1].key = <<"b">>
    /\ InList(<<"a", "a">>, fcls.table[1].value)
    /\ InList(<<"a", "a">>, fcls.table[2].value)
    /\ content = Str(<<"a", "a">>)
    /\ fret = Str(<<"b">>)

\* C13: a Field never returns the empty string, neither as its single value
\* nor as an element of the list it returns.
C13_NeverEmptyString ==
    fpc = "returned" =>
        /\ fret # Str(<<>>)
        /\ IsList(fret) => \A i \in 1..Len(fret.items) : fret.items[i] # Str(<<>>)


\* The fatal cases of a build: the teaser reference does not decode, or the
\* Child field finds no URL in the card.
Malformed(card) == card.ref = "badb64"
Unresolved(card) == ~Malformed(card) /\ ~Truthy(Evaluate(card.child, FALSE))

\* The validation of the record built from the card fails.
Rejected(cls, card) == cls.hasAdept /\ ~card.valid

\* C14 as stated: a build ends in a valid Record, a bad-data placeholder or
\* null, and null is returned only in the malformed-reference and the
\* unresolved-URL cases.
C14_NullOnlyWhenFatal ==
    (ipc = "returned" /\ iret = None) => (Malformed(icard) \/ Unresolved(icard))

\* C14, amended: a build ends in exactly one of three outcomes: the Record
\* (the JSON of the validated model, or the raw dict when the type has no
\* validator), None, returned exactly when validation failed, or an
\* exception, raised in the malformed-reference and unresolved-URL cases
\* (and when the page load or the serialisation raises); None is never
\* returned in the fatal cases.
C14_RecordOrNoneOrRaise ==
    ipc \in {"returned", "raised"} =>
        /\ (Malformed(icard) \/ Unresolved(icard)) =>
            /\ ipc = "raised"
            /\ ierr.type = (IF Malformed(icard) THEN "WrongBase64" ELSE "AssertionError")
        /\ ipc = "raised" =>
            /\ ierr.type \in {"WrongBase64", "AssertionError", "LoadError", "JsonError"}
            /\ iret = None
        /\ ipc = "returned" =>
            /\ ierr = NoError
            /\ IF Rejected(icls, icard)
               THEN iret = None
               ELSE iret = (IF icls.hasAdept THEN Json(idata) ELSE idata)

C14_Witness ==
    /\ ipc = "returned"
    /\ Rejected(icls, icard)
    /\ iret = None
    /\ iloaded

\* C15: a string reference that does not decode makes the build raise
\* WrongBase64 carrying the name of the ItemPage subclass, before Child is
\* evaluated and before the Loader is called.
C15_WrongBase64BeforeChild ==
    (builds > 0 /\ Malformed(icard)) =>
        /\ ipc = "raised"
        /\ ierr = WrongBase64(icls.name)
        /\ ~ichild
        /\ ~iloaded
        /\ iurl = None

C15_Witness ==
    /\ builds = 2
    /\ Malformed(icard)
    /\ ipc = "raised"
    /\ ierr = WrongBase64("ItemB")
    /\ sessions = 1

\* C16: a build never modifies the datamap it is built from, be it the
\* datamap of the class or a dict passed to the constructor, and every build
\* evaluates the Fields of that datamap on its own teaser's documents.
C16_DatamapNeverModified ==
    /\ imap = imap0
    /\ ipc = "built" =>
        \E broken \in SUBSET ItemFields :
            idata = Processing(IF ibound.alias THEN imap0.arg ELSE imap0.cls,
                               Tree(builds), broken)


\* C17: the documents a Ready loader returns are parses of one and the same
\* captured page source, whatever the live page does between the calls.
C17_CallsReturnSameSource ==
    \A i \in DOMAIN docs : \A j \in DOMAIN docs : docs[i] = docs[j]

\* The pairs of the variants whose pattern matches the URL.
Matching(chars) == {i \in DOMAIN variants : Match(variants[i].pattern, chars)}

\* C18: Router(url) on a well-formed URL selects the bundle of the first
\* pair of variants, in their order, whose pattern matches the URL, also
\* when later patterns match; when no pattern matches it raises a
\* RuntimeError that names the URL and no bundle is set.
C18_FirstMatchWins ==
    (rpc \in {"routed", "raised"} /\ rurl.valid) =>
        IF Matching(rurl.chars) # {}
        THEN /\ rpc = "routed"
             /\ \E i \in Matching(rurl.chars) :
                    /\ \A j \in Matching(rurl.chars) : i <= j
                    /\ rbundle = Bundle(variants[i].mod)
        ELSE /\ rpc = "raised"
             /\ rerr = [type |-> "RuntimeError", url |-> rurl.chars]
             /\ rbundle = NoBundle
             /\ rcatalog = NoCatalog

\* Both patterns match and they name different modules.
C18_Witness ==
    /\ rpc = "routed"
    /\ Matching(rurl.chars) = {1, 2}
    /\ variants[1].mod # variants[2].mod
    /\ rbundle = Bundle(variants[1].mod)
    /\ rcatalog = [type |-> <<variants[1].mod, "CatalogPage">>, url |-> rurl.chars]

\* The place of an event in the order navigate, Dismissing,
\* AwaitingPresence, Interacting.
Rank(ev) ==
    CASE ev = "navigate" -> 0
      [] ev = "dismiss" -> 1
      [] ev = "presence" -> 2
      [] ev = "click" -> 3

CountEv(ev) == Cardinality({i \in DOMAIN events : events[i] = ev})

Exposed == lpc \in {"ready", "closed"}


C20_OneBudgetForAllPhases ==
    (lpc \in {"presence", "click"} /\ lstep <= StepsOf(lpc) /\ consumed) =>
        free_timeout < Timeout


\* C28: normalizing leaves the autocorrection dict as it was defined: after
\* any sequence of calls every key has the variant list, in contents and in
\* length, that the class was defined with.
C28_TableUnchanged == autocorrection = fcls.table


\* The record rec has the shape of the datamap map: the same keys at every
\* level, every literal as it is, a dict for every dict, and for every Field
\* the stripped text it finds in its document of tree, or None when that
\* Field is one of failed.
RECURSIVE Mirrors(_, _, _, _)
Mirrors(rec, map, tree, failed) ==
    /\ rec.kind = "dict"
    /\ DOMAIN rec.m = DOMAIN map.m
    /\ \A key \in DOMAIN map.m :
        LET leaf == map.m[key]
        IN  IF leaf.kind = "field"
            THEN rec.m[key] = IF leaf.f \in failed
                              THEN None
                              ELSE Str(Strip(TextIn(leaf.f, tree[SourceOf(leaf.f)])))
            ELSE IF leaf.kind = "dict"
                 THEN Mirrors(rec.m[key], leaf, tree, failed)
                 ELSE rec.m[key] = leaf

\* C25: the record a build assembles has at every level exactly the keys of
\* the datamap it was given: literals unchanged, dicts as dicts of the same
\* shape, every Field replaced by its value, or by None when it raised; a
\* Field that raises changes no other entry and does not end the build.
C25_RecordMirrorsDatamap ==
    /\ ipc = "built" => Mirrors(idata, ibound.data, Tree(builds), ibroken)
    /\ (ipc = "raised" /\ iloaded) => ierr.type \in {"LoadError", "JsonError"}

C25_Witness ==
    /\ ipc = "built"
    /\ ibroken = {"p"}
    /\ DOMAIN ibound.data.m = {"n", "o", "s"}
    /\ ibound.data.m["o"] = Dict([p |-> FieldLeaf("p")])
    /\ idata.m["o"] = Dict([p |-> None])
    /\ idata.m["n"] = Str(<<"n", "c", "t", "t">>)
    /\ idata.m["s"] = Str(<<"a">>)


\* C26: when Child finds no URL in the card (None, an empty list or the
\* empty string), the build raises AssertionError after Child was evaluated
\* and before anything else: no Loader is called, no driver session is
\* opened and no Field of the datamap is evaluated.
C26_EmptyUrlStopsBuild ==
    (builds > 0 /\ Unresolved(icard)) =>
        /\ ipc = "raised"
        /\ ierr = Error("AssertionError")
        /\ ichild
        /\ ~iloaded
        /\ sessions < builds
        /\ idata = ibound.data
        /\ ibroken = {}
        /\ iret = None

C26_Witness ==
    /\ builds = 2
    /\ ipc = "raised"
    /\ Unresolved(icard)
    /\ iurl = Str(<<>>)
    /\ ibound.data.m["n"] = FieldLeaf("n")
    /\ sessions = 1


\* C27: when the class has an Adept and it rejects the assembled record, the
\* constructor does not raise: the instance is flagged _bad_data, its url
\* and its _data (the record as assembled) stay on it, and calling it
\* returns None, neither the record nor the JSON of a model.
C27_RejectedIsFlaggedNotRaised ==
    (iloaded /\ Rejected(icls, icard)) =>
        /\ ipc = "raised" => ierr = Error("LoadError")
        /\ ipc \in {"built", "returned"} =>
            /\ ibad
            /\ ierr = NoError
            /\ iurl = Evaluate(icard.child, FALSE)
            /\ Truthy(iurl)
            /\ Mirrors(idata, ibound.data, Tree(builds), ibroken)
        /\ ipc = "returned" =>
            /\ iret = None
            /\ iret # idata
            /\ iret # Json(idata)

C27_Witness ==
    /\ ipc = "returned"
    /\ Rejected(icls, icard)
    /\ ibad
    /\ iret = None
    /\ iurl = Str(Url(1))
    /\ idata.m["n"] = Str(<<"n", "c", "t">>)


\* C21: within _denotificators_ and within _thereare_ the timeout a wait is
\* given is the configured timeout less the rounded time the earlier waits
\* of that phase took; it never exceeds the configured timeout and is never
\* more than what the wait before it was given.  The same holds of
\* free_timeout, which the next wait of the phase is given.
C21_GrantIsBudgetLessConsumed ==
    (lpc \in {"dismiss", "presence"} \/ (lpc = "failed" /\ lerr = "TimeoutError")) =>
        /\ lwait.n >= 1 =>
            /\ lwait.granted = Timeout - lwait.before
            /\ lwait.granted <= Timeout
            /\ free_timeout <= lwait.granted
        /\ free_timeout = Timeout - (lwait.before + lwait.took)
        /\ free_timeout <= Timeout

C21_Witness ==
    /\ lpc = "presence"
    /\ lwait.n = 2
    /\ lwait.before = 1
    /\ lwait.granted = 2
    /\ lwait.took = 1
    /\ free_timeout = 1


\* C22: every step of denotificators is attempted exactly once and in the
\* order of the list, also after a step that failed and with a remaining
\* timeout below zero; no load fails in _denotificators_, and the load
\* leaves it only for what follows it in __init__.
C22_EveryDismissStepOnce ==
    /\ lpc = "dismiss" =>
        /\ lstep <= lcfg.denotificators + 1
        /\ lwait.n = lstep - 1
        /\ lwait.step = lwait.n
        /\ CountEv("dismiss") = lwait.n
        /\ lerr = "none"
    /\ lpc \in {"presence", "click", "ready", "closed"} =>
        CountEv("dismiss") = lcfg.denotificators
    /\ lpc = "failed" =>
        \/ events = <<"navigate">>
        \/ /\ events[Len(events)] = "presence"
           /\ CountEv("dismiss") = lcfg.denotificators

C22_Witness ==
    /\ lpc = "dismiss"
    /\ lcfg.denotificators = 2
    /\ lwait.n = 2
    /\ lwait.granted < 0
    /\ lwait.res = "error"
    /\ lwait.failures = 2
    /\ lstep = 3


\* C23: in _click_ a step with count n > 0 is attempted at most n times and
\* a step with count 0 for as long as the attempts succeed; the first
\* attempt that fails ends the step; confirmed_pages counts the attempts
\* made before it, all of them successful; and whatever the step ended with,
\* zero successes too, the next step of the list starts afresh and _click_
\* ends only after the last step, with the load Ready.
C23_RepeatUntilCountOrFailure ==
    [][lpc = "click" =>
        IF lstep <= Len(lcfg.click)
        THEN LET n == lcfg.click[lstep]
             IN  /\ n > 0 => (confirmed_pages <= n /\ click_counter = n - confirmed_pages)
                 /\ IF lwait'.res # "found"
                    THEN lstep' = lstep + 1
                    ELSE \/ /\ lstep' = lstep
                            /\ confirmed_pages' = confirmed_pages + 1
                            /\ n > 0 => confirmed_pages < n
                         \/ /\ lstep' = lstep + 1
                            /\ n > 0
                            /\ confirmed_pages = n
                 /\ lstep' = lstep + 1 =>
                        /\ confirmed_pages' = 0
                        /\ click_counter' = CountOf(lstep + 1)
                 /\ lpc' = "click"
                 /\ lerr' = lerr
        ELSE /\ lpc' = "ready"
             /\ lerr' = lerr
             /\ CountEv("click") = Len(lcfg.click)]_vars

C23_Witness ==
    /\ lpc = "click"
    /\ lcfg.click = <<0, 2>>
    /\ lstep = 2
    /\ lwait.res = "timeout"
    /\ confirmed_pages = 0
    /\ click_counter = 2
    /\ events[Len(events)] = "click"


\* C24: a load ends with its blocking bounded by the configured timeout,
\* for every count of a click step, 0 and n > 1 too, when each wait ends
\* within the timeout it was given: the while loop of one click step takes
\* no more than what was left of the timeout when it began, a second of
\* rounding for each of its waits allowed.
C24_StepBlocksWithinBudget ==
    [][(lpc = "click" /\ lstep' = lstep + 1) =>
        free_timeout - free_timeout' <= Max(free_timeout, 0) + confirmed_pages + 1]_vars

====
